---- MODULE Spec2Model ----
(***************************************************************************)
(* Model of the bayespam classifier (src/src/classifier.rs).               *)
(*                                                                         *)
(* Widths are scaled down so that the model checker can reach the corner   *)
(* cases: the u32 counters are CounterBits wide (arithmetic modulo         *)
(* 2^CounterBits), and f32 is a binary floating-point number with a        *)
(* MantissaBits-bit significand, rounded to nearest-even after every       *)
(* operation as IEEE-754 does.  As in the program (24 < 32) the            *)
(* significand is narrower than a counter, so `as f32` rounds large        *)
(* counts.  The exponent range is not bounded.                             *)
(***************************************************************************)
EXTENDS Integers, Sequences, FiniteSets, Bags, TLC

\* ---------------------------------------------------------------- bounds
CounterBits == 8
MantissaBits == 6
MaxSteps == 1
MaxLifecycleSteps == 3
MaxMsgLen == 1

\* ------------------------------------------------------------- u32 model
U32Modulus == 2 ^ CounterBits
U32Max == U32Modulus - 1

\* ------------------------------------------------------------- f32 model
\* A float is [m, e] with value m * 2^e, m = 0 or 2^(P-1) <= m < 2^P;
\* NaN is m = -1.
PowP == 2 ^ MantissaBits
PowPm1 == 2 ^ (MantissaBits - 1)
FZero == [m |-> 0, e |-> 0]
FNaN == [m |-> -1, e |-> 0]
FOne == [m |-> PowPm1, e |-> 1 - MantissaBits]
IsNaN(x) == x.m = -1

RECURSIVE BitLen(_)
BitLen(n) == IF n = 0 THEN 0 ELSE 1 + BitLen(n \div 2)

\* The float nearest to n * 2^e (ties to even), n >= 0.
RoundF(n, e) ==
  IF n = 0 THEN FZero
  ELSE LET L == BitLen(n) IN
       IF L <= MantissaBits
       THEN [m |-> n * 2 ^ (MantissaBits - L), e |-> e - (MantissaBits - L)]
       ELSE LET sh == L - MantissaBits
                q == n \div (2 ^ sh)
                r == n % (2 ^ sh)
                half == 2 ^ (sh - 1)
                up == r > half \/ (r = half /\ q % 2 = 1)
                q2 == IF up THEN q + 1 ELSE q
            IN IF q2 = PowP THEN [m |-> PowPm1, e |-> e + sh + 1]
               ELSE [m |-> q2, e |-> e + sh]

\* `n as f32`
FromInt(n) == RoundF(n, 0)

\* a < b on non-NaN, non-negative floats
FLess(a, b) ==
  IF b.m = 0 THEN FALSE
  ELSE IF a.m = 0 THEN TRUE
  ELSE IF a.e # b.e THEN a.e < b.e
  ELSE a.m < b.m

FLeq(a, b) == a = b \/ FLess(a, b)

FMul(a, b) ==
  IF IsNaN(a) \/ IsNaN(b) THEN FNaN
  ELSE RoundF(a.m * b.m, a.e + b.e)

FAdd(a, b) ==
  IF IsNaN(a) \/ IsNaN(b) THEN FNaN
  ELSE IF a.m = 0 THEN b
  ELSE IF b.m = 0 THEN a
  ELSE LET hi == IF a.e >= b.e THEN a ELSE b
           lo == IF a.e >= b.e THEN b ELSE a
           d == hi.e - lo.e
       IN IF d > MantissaBits + 1 THEN hi
          ELSE RoundF(hi.m * 2 ^ d + lo.m, lo.e)

\* a - b for a >= b >= 0
FSub(a, b) ==
  IF IsNaN(a) \/ IsNaN(b) THEN FNaN
  ELSE IF b.m = 0 THEN a
  ELSE IF a.e - b.e > MantissaBits + 2 THEN a
  ELSE LET d == a.e - b.e
       IN IF d >= 0 THEN RoundF(a.m * 2 ^ d - b.m, b.e)
          ELSE RoundF(a.m - b.m * 2 ^ (0 - d), a.e)

\* a / b; 0/0 is NaN (x/0 for x > 0 does not arise: see rate_words, score)
FDiv(a, b) ==
  IF IsNaN(a) \/ IsNaN(b) THEN FNaN
  ELSE IF b.m = 0 THEN FNaN
  ELSE IF a.m = 0 THEN FZero
  ELSE LET num == a.m * 2 ^ (MantissaBits + 2)
           q == num \div b.m
           st == IF num % b.m = 0 THEN 0 ELSE 1
       IN RoundF(2 * q + st, a.e - b.e - MantissaBits - 3)

\* f32::max: if one argument is NaN the other is returned
FMax(a, b) ==
  IF IsNaN(a) THEN b
  ELSE IF IsNaN(b) THEN a
  ELSE IF FLess(a, b) THEN b ELSE a

\* The f32 literal nearest to the decimal num/den (num, den > 0)
Lit(num, den) ==
  LET k == MantissaBits + 2 + BitLen(den)
      q == (num * 2 ^ k) \div den
      st == IF (num * 2 ^ k) % den = 0 THEN 0 ELSE 1
  IN RoundF(2 * q + st, 0 - k - 1)

INITIAL_RATING == Lit(1, 2)
SPAM_PROB_THRESHOLD == Lit(4, 5)
SPAM_ONLY_RATING == Lit(99, 100)
HAM_ONLY_RATING == Lit(1, 100)
RATING_FLOOR == Lit(1, 100)

\* ------------------------------------------------------ program constants
TRUNCATE_ABOVE == 20
KEEP_EACH_SIDE == 10

\* ------------------------------------------------------------ input sets
Words == {"a", "b", "c"}
TrainWords == {"a", "b"}
Punct == {"!"}

SeqsUpTo(S, n) == UNION {[1..k -> S] : k \in 0..n}

Rep(w, n) == [i \in 1..n |-> w]

Reverse(s) == [i \in 1..Len(s) |-> s[Len(s) + 1 - i]]

LongLen == TRUNCATE_ABOVE + 1

\* Messages of more than TRUNCATE_ABOVE words
LongMsgs ==
  { <<"a">> \o Rep("c", LongLen - 1),
    Rep("c", LongLen - 1) \o <<"b">>,
    Rep("a", KEEP_EACH_SIDE + 1) \o Rep("c", 5) \o Rep("b", LongLen - KEEP_EACH_SIDE - 6),
    Rep("c", LongLen + 3) \o <<"!">> }

TrainMsgs ==
  SeqsUpTo(TrainWords, MaxMsgLen) \cup {<<"!">>, <<"a", "!">>, <<"a", "b">>, <<"a", "a">>}

ShortMsgs ==
  { <<>>, <<"!">>, <<"a">>, <<"b">>, <<"c">>, <<"a", "c">>, <<"c", "b">>,
    <<"!", "a", "!">>, <<"a", "b", "b">>, <<"b", "b", "a">>, <<"b", "a", "b">>,
    <<"a", "a", "b">> }

ScoreMsgs == ShortMsgs \cup LongMsgs

\* --------------------------------------------------------------- Counter
DefaultCounter == [ham |-> 0, spam |-> 0]

EmptyTable == [w \in {} |-> DefaultCounter]

RECURSIVE SumField(_, _)
\* c.token_table.values().map(|x| x.<field>), summed as a mathematical integer
SumField(tt, field) ==
  IF DOMAIN tt = {} THEN 0
  ELSE LET w == CHOOSE v \in DOMAIN tt : TRUE
       IN tt[w][field] + SumField([v \in DOMAIN tt \ {w} |-> tt[v]], field)

\* ------------------------------------------------------------- tokenizer
IsWord(seg) == seg \in Words

load_word_list(m) == SelectSeq(m, IsWord)

\* ---------------------------------------------------------------- training
RECURSIVE train_words(_, _, _, _)
\* The loop body of train_spam / train_ham over the remaining words.
\* st = [tt, total, panic]; with overflow checks an overflowing `+= 1`
\* panics, without them it wraps.
train_words(st, words, field, checks) ==
  IF words = <<>> \/ st.panic THEN st
  ELSE LET w == Head(words)
           tt1 == IF w \in DOMAIN st.tt THEN st.tt
                  ELSE [v \in DOMAIN st.tt \cup {w} |->
                          IF v = w THEN DefaultCounter ELSE st.tt[v]]
           c == tt1[w][field]
           tt2 == [tt1 EXCEPT ![w][field] = (c + 1) % U32Modulus]
       IN IF checks /\ c = U32Max
          THEN [tt |-> tt1, total |-> st.total, panic |-> TRUE]
          ELSE IF checks /\ st.total = U32Max
          THEN [tt |-> tt2, total |-> st.total, panic |-> TRUE]
          ELSE train_words([tt |-> tt2,
                            total |-> (st.total + 1) % U32Modulus,
                            panic |-> FALSE],
                           Tail(words), field, checks)

\* ----------------------------------------------------------------- rating
rate_branch(tt, spam_total, ham_total, word) ==
  IF word \in DOMAIN tt
  THEN IF tt[word].spam > 0 /\ tt[word].ham = 0 THEN "spam_only"
       ELSE IF tt[word].spam = 0 /\ tt[word].ham > 0 THEN "ham_only"
       ELSE IF spam_total > 0 /\ ham_total > 0 THEN "mixed"
       ELSE "fallback"
  ELSE "unseen"

ham_prob(tt, ham_total, word) ==
  FDiv(FromInt(tt[word].ham), FromInt(ham_total))

spam_prob(tt, spam_total, word) ==
  FDiv(FromInt(tt[word].spam), FromInt(spam_total))

mixed_rating(tt, spam_total, ham_total, word) ==
  LET hp == ham_prob(tt, ham_total, word)
      sp == spam_prob(tt, spam_total, word)
  IN FMax(FDiv(sp, FAdd(hp, sp)), RATING_FLOOR)

\* Mutant: the two fixed ratings are exchanged
rate_word_swapped(tt, spam_total, ham_total, word) ==
  LET br == rate_branch(tt, spam_total, ham_total, word)
  IN CASE br = "spam_only" -> HAM_ONLY_RATING
       [] br = "ham_only" -> SPAM_ONLY_RATING
       [] br = "mixed" -> mixed_rating(tt, spam_total, ham_total, word)
       [] OTHER -> INITIAL_RATING

rate_word(tt, spam_total, ham_total, word) ==
  LET br == rate_branch(tt, spam_total, ham_total, word)
  IN CASE br = "spam_only" -> SPAM_ONLY_RATING
       [] br = "ham_only" -> HAM_ONLY_RATING
       [] br = "mixed" -> mixed_rating(tt, spam_total, ham_total, word)
       [] OTHER -> INITIAL_RATING

rate_words(tt, spam_total, ham_total, m) ==
  LET ws == load_word_list(m)
  IN [i \in 1..Len(ws) |-> rate_word(tt, spam_total, ham_total, ws[i])]

\* ---------------------------------------------------------------- scoring
RECURSIVE InsertSorted(_, _)
InsertSorted(s, v) ==
  IF s = <<>> THEN <<v>>
  ELSE IF FLess(v, Head(s)) THEN <<v>> \o s
  ELSE <<Head(s)>> \o InsertSorted(Tail(s), v)

RECURSIVE SortAscending(_)
\* ratings.sort_unstable_by(|a, b| a.partial_cmp(b).unwrap())
SortAscending(s) ==
  IF s = <<>> THEN <<>>
  ELSE InsertSorted(SortAscending(Tail(s)), Head(s))

\* Mutant: the 20 lowest ratings are kept
kept_ratings_lowest(rs) ==
  IF Len(rs) > TRUNCATE_ABOVE
  THEN SubSeq(SortAscending(rs), 1, 2 * KEEP_EACH_SIDE)
  ELSE rs

\* Mutant: the ratings are not sorted before the middle is dropped
kept_ratings_unsorted(rs) ==
  IF Len(rs) > TRUNCATE_ABOVE
  THEN SubSeq(rs, 1, KEEP_EACH_SIDE)
       \o SubSeq(rs, Len(rs) - KEEP_EACH_SIDE + 1, Len(rs))
  ELSE rs

\* The ratings that enter the combination
kept_ratings(rs) ==
  IF Len(rs) > TRUNCATE_ABOVE
  THEN LET sorted == SortAscending(rs)
       IN SubSeq(sorted, 1, KEEP_EACH_SIDE)
          \o SubSeq(sorted, Len(rs) - KEEP_EACH_SIDE + 1, Len(rs))
  ELSE rs

RECURSIVE Product(_, _)
\* Iterator::product for f32: fold from 1.0, multiplying left to right
Product(acc, s) ==
  IF s = <<>> THEN acc ELSE Product(FMul(acc, Head(s)), Tail(s))

Complements(s) == [i \in 1..Len(s) |-> FSub(FOne, s[i])]

\* Mutant: the product is divided by the product of the complements
combine_odds(ks) ==
  LET product == Product(FOne, ks)
      alt_product == Product(FOne, Complements(ks))
  IN FDiv(product, alt_product)

combine(ks) ==
  LET product == Product(FOne, ks)
      alt_product == Product(FOne, Complements(ks))
  IN FDiv(product, FAdd(product, alt_product))

score_of(tt, spam_total, ham_total, m) ==
  LET rs == rate_words(tt, spam_total, ham_total, m)
  IN IF Len(rs) = 0 THEN FZero ELSE combine(kept_ratings(rs))


\* ------------------------------------------------------------ persistence
\* A file is a sequence of JSON lexemes [k, v]; numbers are written in
\* decimal and parsed back, keys are quoted strings, "ws" is whitespace.
\* (Colons and commas are left out.)
Key(name) == [k |-> "key", v |-> name]
Num(n) == [k |-> "num", v |-> ToString(n)]
Open == [k |-> "punct", v |-> "{"]
Close == [k |-> "punct", v |-> "}"]
WS == [k |-> "ws", v |-> " "]
EOF == [k |-> "eof", v |-> ""]

RECURSIVE Flatten(_)
Flatten(ss) == IF ss = <<>> THEN <<>> ELSE Head(ss) \o Flatten(Tail(ss))

\* Mutant: the two counts are written under each other's name
counter_lex_swapped(name, c) ==
  <<Key(name), Open, Key("ham"), Num(c.spam), Key("spam"), Num(c.ham), Close>>

\* #[derive(Serialize)] for Counter: fields in declaration order
counter_lex(name, c) ==
  <<Key(name), Open, Key("ham"), Num(c.ham), Key("spam"), Num(c.spam), Close>>

\* #[derive(Serialize)] for Classifier: token_table only, the totals are
\* #[serde(skip)]; `order` is the iteration order of the HashMap
to_writer(tt, order) ==
  <<Open, Key("token_table"), Open>>
  \o Flatten([i \in 1..Len(order) |-> counter_lex(order[i], tt[order[i]])])
  \o <<Close, Close>>

\* to_writer_pretty: the same lexemes separated by whitespace
to_writer_pretty(tt, order) ==
  LET lex == to_writer(tt, order)
  IN Flatten([i \in 1..Len(lex) |-> IF i = 1 THEN <<lex[i]>> ELSE <<WS, lex[i]>>])

\* The iteration orders of a HashMap with the given key set
Orders(D) == {o \in [1..Cardinality(D) -> D] : \A i, j \in 1..Cardinality(D) : o[i] = o[j] => i = j}

IsNotWS(l) == l.k # "ws"

At(lex, i) == IF i >= 1 /\ i <= Len(lex) THEN lex[i] ELSE EOF

IsU32(l) == l.k = "num" /\ \E n \in 0..U32Max : ToString(n) = l.v

ParseU32(l) == CHOOSE n \in 0..U32Max : ToString(n) = l.v

ParseError == [ok |-> FALSE, tt |-> EmptyTable, next |-> 0]

\* #[derive(Deserialize)] for Counter at lex[i]: an object with the two
\* fields ham and spam, in either order
parse_counter(lex, i) ==
  LET k1 == At(lex, i + 1)
      n1 == At(lex, i + 2)
      k2 == At(lex, i + 3)
      n2 == At(lex, i + 4)
  IN IF /\ At(lex, i) = Open
        /\ k1.k = "key" /\ k2.k = "key"
        /\ {k1.v, k2.v} = {"ham", "spam"}
        /\ IsU32(n1) /\ IsU32(n2)
        /\ At(lex, i + 5) = Close
     THEN [ok |-> TRUE,
           c |-> IF k1.v = "ham"
                 THEN [ham |-> ParseU32(n1), spam |-> ParseU32(n2)]
                 ELSE [ham |-> ParseU32(n2), spam |-> ParseU32(n1)]]
     ELSE [ok |-> FALSE, c |-> DefaultCounter]

RECURSIVE parse_entries(_, _, _)
\* HashMap<String, Counter>: a repeated key replaces the earlier entry
parse_entries(lex, i, acc) ==
  LET l == At(lex, i)
  IN IF l = Close THEN [ok |-> TRUE, tt |-> acc, next |-> i + 1]
     ELSE IF l.k = "key"
     THEN LET pc == parse_counter(lex, i + 1)
          IN IF pc.ok
             THEN parse_entries(lex, i + 7,
                    [w \in DOMAIN acc \cup {l.v} |->
                       IF w = l.v THEN pc.c ELSE acc[w]])
             ELSE ParseError
     ELSE ParseError

RECURSIVE parse_fields(_, _, _, _)
\* ClassifierSerialized: the field token_table is required and may appear
\* once; any other field is skipped
parse_fields(lex, i, found, acc) ==
  LET l == At(lex, i)
  IN IF l = Close
     THEN IF found /\ i = Len(lex) THEN [ok |-> TRUE, tt |-> acc, next |-> i + 1]
          ELSE ParseError
     ELSE IF l.k = "key" /\ l.v = "token_table"
     THEN IF found \/ At(lex, i + 1) # Open THEN ParseError
          ELSE LET pe == parse_entries(lex, i + 2, EmptyTable)
               IN IF pe.ok THEN parse_fields(lex, pe.next, TRUE, pe.tt)
                  ELSE ParseError
     ELSE IF l.k = "key" /\ At(lex, i + 1).k = "num"
     THEN parse_fields(lex, i + 2, found, acc)
     ELSE ParseError

\* serde_json::from_reader::<ClassifierSerialized>
from_reader(f) ==
  LET lex == SelectSeq(f, IsNotWS)
  IN IF At(lex, 1) = Open THEN parse_fields(lex, 2, FALSE, EmptyTable)
     ELSE ParseError

\* impl From<ClassifierSerialized> for Classifier: the totals are summed
\* in u32; an overflowing sum panics with overflow checks, wraps without
from_serialized(tt, checks) ==
  LET s == SumField(tt, "spam")
      h == SumField(tt, "ham")
  IN [panic |-> checks /\ (s > U32Max \/ h > U32Max),
      tt |-> tt,
      spam_total |-> s % U32Modulus,
      ham_total |-> h % U32Modulus]

\* Files written by hand: a list of entries <<word, ham, spam>> (repeats
\* allowed), other top-level fields <<name, n>> before the table
Doc(entries, extras, pretty) ==
  LET lex == <<Open>>
             \o Flatten([i \in 1..Len(extras) |-> <<Key(extras[i][1]), Num(extras[i][2])>>])
             \o <<Key("token_table"), Open>>
             \o Flatten([i \in 1..Len(entries) |->
                  <<Key(entries[i][1]), Open, Key("spam"), Num(entries[i][3]),
                    Key("ham"), Num(entries[i][2]), Close>>])
             \o <<Close, Close>>
  IN IF pretty THEN Flatten([i \in 1..Len(lex) |-> <<lex[i], WS>>]) ELSE lex

WellFormedFiles ==
  { Doc(<< <<"a", 1, 1>>, <<"b", U32Max - 55, 0>> >>, <<>>, FALSE),
    Doc(<< <<"a", 0, U32Max>> >>, << <<"spam_total_count", 7>>, <<"ham_total_count", 9>> >>, TRUE),
    Doc(<< <<"a", 0, U32Max>>, <<"b", 0, 1>> >>, <<>>, FALSE),
    Doc(<< <<"a", 0, 0>> >>, <<>>, FALSE),
    Doc(<< <<"a", 0, 0>>, <<"b", 1, 1>> >>, <<>>, TRUE),
    Doc(<< <<"a", 1, 0>>, <<"a", 0, 2>>, <<"b", 3, 0>> >>, << <<"spam_total_count", 0>> >>, FALSE),
    Doc(<< <<"a", 1, 1>>, <<"b", 3, 0>> >>, <<>>, FALSE) }

MalformedFiles ==
  { <<Open, Key("spam_total_count"), Num(3), Close>>,
    <<Open, Key("token_table"), Open, Key("a"), Open, Key("ham"), Num(1), Close, Close, Close>> }

NoFile == <<>>

\* ------------------------------------------------------------------ state
VARIABLES
  token_table, spam_total_count, ham_total_count,  \* the Classifier
  overflow_checks,   \* build profile: overflow checks on (debug) or off (release)
  panicked,          \* the thread has panicked
  file,              \* the file on disk: the one loaded or last written by save
  budget,            \* number of loading, training and saving calls a run may make
  steps,             \* number of them made so far
  last_op,           \* the call that was made last
  msg,               \* its message argument
  ratings,           \* score: the result of rate_words
  kept,              \* score: the ratings that are combined
  score_result,      \* the value returned by score
  is_spam,           \* the value returned by identify
  load_ok            \* new_from_pre_trained returned Ok

vars == <<token_table, spam_total_count, ham_total_count, overflow_checks,
          panicked, file, budget, steps, last_op, msg, ratings, kept, score_result,
          is_spam, load_ok>>

classifier == <<token_table, spam_total_count, ham_total_count>>

NoCall == /\ msg' = <<>>
          /\ ratings' = <<>>
          /\ kept' = <<>>
          /\ score_result' = FZero
          /\ is_spam' = FALSE

\* Classifier::new_from_pre_trained(file), as a relation between the file
\* and the fields of the outcome (cl is the classifier before the call)
pre_trained(f, checks, cl) ==
  LET p == from_reader(f)
      c == from_serialized(p.tt, checks)
  IN IF ~p.ok THEN [cl EXCEPT !.ok = FALSE]
     ELSE IF c.panic THEN [cl EXCEPT !.panic = TRUE]
     ELSE [tt |-> c.tt, spam_total |-> c.spam_total, ham_total |-> c.ham_total,
           ok |-> TRUE, panic |-> FALSE]

NewClassifier ==
  [tt |-> EmptyTable, spam_total |-> 0, ham_total |-> 0, ok |-> TRUE, panic |-> FALSE]

\* Construction: Classifier::new() or Classifier::new_from_pre_trained(file)
\* on a file written by hand, which stays on disk
Constructed(n) ==
  /\ budget = n
  /\ overflow_checks \in BOOLEAN
  /\ \E f \in {NoFile} \cup WellFormedFiles \cup MalformedFiles :
       LET c == IF f = NoFile THEN NewClassifier
                ELSE pre_trained(f, overflow_checks, NewClassifier)
       IN /\ token_table = c.tt
          /\ spam_total_count = c.spam_total
          /\ ham_total_count = c.ham_total
          /\ load_ok = c.ok
          /\ panicked = c.panic
          /\ last_op = IF f = NoFile THEN "new" ELSE "load"
          /\ file = f
  /\ steps = 0
  /\ msg = <<>>
  /\ ratings = <<>>
  /\ kept = <<>>
  /\ score_result = FZero
  /\ is_spam = FALSE

Init == Constructed(MaxSteps)

InitLifecycle == Constructed(MaxLifecycleSteps)

Running == ~panicked /\ load_ok

Answered == last_op \in {"score", "identify"}

\* score and identify take &self and change no field: what can follow a
\* query can follow the state before it, so a run is cut after its query.
CanCall == Running /\ ~Answered

CanChange == CanCall /\ steps < budget

\* Classifier::new_from_pre_trained(file) on the file written by save
load_saved ==
  /\ CanChange
  /\ file # NoFile
  /\ steps' = steps + 1
  /\ last_op' = "load_saved"
  /\ LET c == pre_trained(file, overflow_checks,
                [tt |-> token_table, spam_total |-> spam_total_count,
                 ham_total |-> ham_total_count, ok |-> TRUE, panic |-> FALSE])
     IN /\ token_table' = c.tt
        /\ spam_total_count' = c.spam_total
        /\ ham_total_count' = c.ham_total
        /\ load_ok' = c.ok
        /\ panicked' = c.panic
  /\ NoCall
  /\ UNCHANGED <<overflow_checks, file, budget>>

\* Classifier::save(file, pretty)
save(pretty) ==
  /\ CanChange
  /\ steps' = steps + 1
  /\ last_op' = "save"
  /\ \E order \in Orders(DOMAIN token_table) :
       file' = IF pretty THEN to_writer_pretty(token_table, order)
               ELSE to_writer(token_table, order)
  /\ NoCall
  /\ UNCHANGED <<classifier, overflow_checks, panicked, budget, load_ok>>

\* Mutant: train_spam adds the words to ham_total_count
train_spam_ham_total(m) ==
  /\ CanChange
  /\ steps' = steps + 1
  /\ last_op' = "train_spam"
  /\ LET r == train_words([tt |-> token_table, total |-> ham_total_count, panic |-> FALSE],
                          load_word_list(m), "spam", overflow_checks)
     IN /\ token_table' = r.tt
        /\ ham_total_count' = r.total
        /\ panicked' = r.panic
  /\ msg' = m
  /\ ratings' = <<>> /\ kept' = <<>> /\ score_result' = FZero /\ is_spam' = FALSE
  /\ UNCHANGED <<spam_total_count, overflow_checks, file, budget, load_ok>>

\* Classifier::train_spam(msg)
train_spam(m) ==
  /\ CanChange
  /\ steps' = steps + 1
  /\ last_op' = "train_spam"
  /\ LET r == train_words([tt |-> token_table, total |-> spam_total_count, panic |-> FALSE],
                          load_word_list(m), "spam", overflow_checks)
     IN /\ token_table' = r.tt
        /\ spam_total_count' = r.total
        /\ panicked' = r.panic
  /\ msg' = m
  /\ ratings' = <<>> /\ kept' = <<>> /\ score_result' = FZero /\ is_spam' = FALSE
  /\ UNCHANGED <<ham_total_count, overflow_checks, file, budget, load_ok>>

\* Classifier::train_ham(msg)
train_ham(m) ==
  /\ CanChange
  /\ steps' = steps + 1
  /\ last_op' = "train_ham"
  /\ LET r == train_words([tt |-> token_table, total |-> ham_total_count, panic |-> FALSE],
                          load_word_list(m), "ham", overflow_checks)
     IN /\ token_table' = r.tt
        /\ ham_total_count' = r.total
        /\ panicked' = r.panic
  /\ msg' = m
  /\ ratings' = <<>> /\ kept' = <<>> /\ score_result' = FZero /\ is_spam' = FALSE
  /\ UNCHANGED <<spam_total_count, overflow_checks, file, budget, load_ok>>

\* The body of Classifier::score(msg)
score_body(m) ==
  /\ msg' = m
  /\ ratings' = rate_words(token_table, spam_total_count, ham_total_count, m)
  /\ kept' = IF Len(ratings') = 0 THEN <<>> ELSE kept_ratings(ratings')
  /\ score_result' = IF Len(ratings') = 0 THEN FZero ELSE combine(kept')

\* Classifier::score(msg)
score(m) ==
  /\ CanCall
  /\ last_op' = "score"
  /\ score_body(m)
  /\ is_spam' = FALSE
  /\ UNCHANGED <<classifier, overflow_checks, panicked, file, budget, steps, load_ok>>

\* Classifier::identify(msg)
identify(m) ==
  /\ CanCall
  /\ last_op' = "identify"
  /\ score_body(m)
  /\ is_spam' = FLess(SPAM_PROB_THRESHOLD, score_result')
  /\ UNCHANGED <<classifier, overflow_checks, panicked, file, budget, steps, load_ok>>

Next ==
  \/ load_saved
  \/ \E pretty \in BOOLEAN : save(pretty)
  \/ \E m \in TrainMsgs : train_spam(m)
  \/ \E m \in TrainMsgs : train_ham(m)
  \/ \E m \in ShortMsgs : score(m)
  \/ \E m \in ScoreMsgs : identify(m)

\* Runs of at most MaxSteps loading, training and saving calls, with a
\* query at any point; identify(m) runs score(m), and it is identify that
\* is given the long messages
Spec == Init /\ [][Next]_vars

NextLifecycle ==
  \/ load_saved
  \/ \E pretty \in BOOLEAN : save(pretty)
  \/ \E m \in TrainMsgs : train_spam(m)
  \/ \E m \in TrainMsgs : train_ham(m)

\* Longer runs of the calls that load, train and save
SpecLifecycle == InitLifecycle /\ [][NextLifecycle]_vars

\* ================================================================ claims

Branch(w) == rate_branch(token_table, spam_total_count, ham_total_count, w)

Range(q) == {q[i] : i \in DOMAIN q}

BagOfSeq(q) == [v \in Range(q) |-> Cardinality({i \in DOMAIN q : q[i] = v})]

Count(w, q) == Cardinality({i \in DOMAIN q : q[i] = w})

\* C1: while the program runs, spam_total_count is the sum of the spam
\* counts of token_table and ham_total_count the sum of the ham counts,
\* after construction (from any well-formed file, whatever total fields it
\* carries) and after every call.
C1_TotalsAreSums ==
  Running =>
    /\ spam_total_count = SumField(token_table, "spam")
    /\ ham_total_count = SumField(token_table, "ham")

\* C2: save writes token_table and no total, and loading the file that
\* save has just written (pretty or compact, any entry order) gives a
\* classifier with the same token_table and the same totals.
C2_RoundTrip ==
  [][ /\ last_op' = "save" =>
           \A i \in DOMAIN file' :
             file'[i].k = "key" => file'[i].v \notin {"spam_total_count", "ham_total_count"}
      /\ (last_op = "save" /\ last_op' = "load_saved") =>
           /\ load_ok' /\ ~panicked'
           /\ token_table' = token_table
           /\ spam_total_count' = spam_total_count
           /\ ham_total_count' = ham_total_count ]_vars

C2_Witness ==
  /\ last_op = "load_saved"
  /\ Running
  /\ \E w \in DOMAIN token_table : token_table[w].spam > 0
  /\ \E w \in DOMAIN token_table : token_table[w].ham > 0
  /\ \E i \in DOMAIN file : file[i].k = "ws"

\* C3: every rating computed by rate_words is the initial rating 0.5 or
\* lies in [0.01, 0.99].
C3_RatingRange ==
  \A i \in DOMAIN ratings :
    \/ ratings[i] = Lit(1, 2)
    \/ /\ FLeq(Lit(1, 100), ratings[i])
       /\ FLeq(ratings[i], Lit(99, 100))

\* C4: a word with spam > 0 and ham = 0 rates 0.99, a word with spam = 0
\* and ham > 0 rates 0.01, a word absent from token_table rates 0.5,
\* whatever the totals and the other entries are.
C4_FixedRatings ==
  Answered =>
    \A i \in DOMAIN ratings :
      LET w == load_word_list(msg)[i] IN
        /\ (w \in DOMAIN token_table /\ token_table[w].spam > 0 /\ token_table[w].ham = 0)
             => ratings[i] = Lit(99, 100)
        /\ (w \in DOMAIN token_table /\ token_table[w].spam = 0 /\ token_table[w].ham > 0)
             => ratings[i] = Lit(1, 100)
        /\ w \notin DOMAIN token_table => ratings[i] = Lit(1, 2)

C4_Witness ==
  /\ Answered
  /\ Len(ratings) = Len(load_word_list(msg))
  /\ \E i, j, k \in DOMAIN ratings :
       /\ Branch(load_word_list(msg)[i]) = "spam_only"
       /\ Branch(load_word_list(msg)[j]) = "ham_only"
       /\ Branch(load_word_list(msg)[k]) = "unseen"

IsTrainSpamOn(w) ==
  /\ last_op' = "train_spam"
  /\ ~panicked'
  /\ w \in DOMAIN token_table
  /\ token_table[w].ham > 0 /\ token_table[w].spam > 0
  /\ token_table'[w].spam > token_table[w].spam
  /\ token_table'[w].ham = token_table[w].ham
  /\ rate_branch(token_table, spam_total_count, ham_total_count, w) = "mixed"
  /\ rate_branch(token_table', spam_total_count', ham_total_count', w) = "mixed"

\* C6 as stated: when train_spam raises the spam count of a word that has
\* ham > 0 and spam > 0 (ham fixed), its mixed-count rating does not go down.
C6_RatingMonotone ==
  [][ \A w \in TrainWords :
        IsTrainSpamOn(w) =>
          FLeq(mixed_rating(token_table, spam_total_count, ham_total_count, w),
               mixed_rating(token_table', spam_total_count', ham_total_count', w)) ]_vars

\* C6 amended: when the trained message consists of occurrences of that
\* word only and the word's spam count was at most spam_total_count, the
\* exact ratio spam / spam_total_count of the word does not go down and
\* its ham count and ham_total_count stay as they are.
C6_FrequencyMonotone ==
  [][ \A w \in TrainWords :
        ( /\ IsTrainSpamOn(w)
          /\ \A i \in DOMAIN load_word_list(msg') : load_word_list(msg')[i] = w
          /\ token_table[w].spam <= spam_total_count )
        => /\ token_table'[w].spam * spam_total_count
                >= token_table[w].spam * spam_total_count'
           /\ ham_total_count' = ham_total_count ]_vars

C6_Witness ==
  /\ last_op = "train_spam"
  /\ Running
  /\ load_word_list(msg) = <<"a", "a">>
  /\ "a" \in DOMAIN token_table
  /\ token_table["a"].ham > 0
  /\ token_table["a"].spam > 2
  /\ token_table["a"].spam <= spam_total_count
  /\ Branch("a") = "mixed"

OneSided(side) ==
  /\ \E i \in DOMAIN load_word_list(msg) : Branch(load_word_list(msg)[i]) = side
  /\ \A i \in DOMAIN load_word_list(msg) : Branch(load_word_list(msg)[i]) \in {side, "unseen"}

\* C7: identify is true exactly when the score exceeds 0.8; a message with
\* at least one spam-only word and otherwise unseen words is identified as
\* spam, one with at least one ham-only word and otherwise unseen words is
\* not, whatever its length.
C7_Identify ==
  last_op = "identify" =>
    /\ is_spam <=> FLess(Lit(4, 5), score_result)
    /\ OneSided("spam_only") => is_spam
    /\ OneSided("ham_only") => ~is_spam

C7_Witness ==
  /\ last_op = "identify"
  /\ OneSided("spam_only")
  /\ is_spam
  /\ Len(load_word_list(msg)) > TRUNCATE_ABOVE
  /\ \E i \in DOMAIN load_word_list(msg) : Branch(load_word_list(msg)[i]) = "unseen"

RECURSIVE Orderings(_)
Orderings(q) ==
  IF q = <<>> THEN {<<>>}
  ELSE UNION { {<<q[i]>> \o p :
                  p \in Orderings([j \in 1..(Len(q) - 1) |-> IF j < i THEN q[j] ELSE q[j + 1]])}
               : i \in DOMAIN q }

\* The reorderings of a message that are compared: all of a message of up
\* to three segments, the reversal and a rotation of a longer one
Reorderings(m) ==
  IF Len(m) <= 3 THEN Orderings(m)
  ELSE {Reverse(m), Tail(m) \o <<Head(m)>>}

\* The ratings that are combined: one per word occurrence up to 20 words,
\* the 10 smallest and the 10 largest beyond
CombinedRatings ==
  LET ws == load_word_list(msg)
      n == Len(ws)
      dropped == BagOfSeq(ratings) (-) BagOfSeq(kept)
      lo == SubSeq(kept, 1, KEEP_EACH_SIDE)
      hi == SubSeq(kept, KEEP_EACH_SIDE + 1, 2 * KEEP_EACH_SIDE)
  IN /\ Len(ratings) = n
     /\ \A i \in 1..n :
          ratings[i] = rate_word(token_table, spam_total_count, ham_total_count, ws[i])
     /\ n <= 20 => BagOfSeq(kept) = BagOfSeq(ratings)
     /\ n > 20 =>
          /\ Len(kept) = 20
          /\ BagOfSeq(kept) \sqsubseteq BagOfSeq(ratings)
          /\ \A d \in BagToSet(dropped) :
               /\ \A i \in DOMAIN lo : FLeq(lo[i], d)
               /\ \A i \in DOMAIN hi : FLeq(d, hi[i])
          /\ \A i \in DOMAIN lo : \A j \in DOMAIN hi : FLeq(lo[i], hi[j])

SameScoreFor(m) ==
  score_of(token_table, spam_total_count, ham_total_count, m) = score_result

\* C8 as stated: the combined ratings are as above and the score is the
\* same for every order of the words of the message.
C8_OrderIndependent ==
  Answered =>
    /\ CombinedRatings
    /\ \A m \in Reorderings(msg) : SameScoreFor(m)

\* C8 amended: the combined ratings are as above, and the score is the same
\* for every order of the words of a message of more than 20 words (for
\* which the ratings are sorted before they are multiplied).
C8_Truncation ==
  Answered =>
    /\ CombinedRatings
    /\ Len(load_word_list(msg)) > 20 => \A m \in Reorderings(msg) : SameScoreFor(m)

C8_Witness ==
  /\ last_op = "identify"
  /\ Len(ratings) > TRUNCATE_ABOVE
  /\ Len(kept) = 2 * KEEP_EACH_SIDE
  /\ Cardinality(Range(ratings)) = 3
  /\ BagOfSeq(kept) # BagOfSeq(ratings)
  /\ kept # SubSeq(ratings, 1, KEEP_EACH_SIDE)
            \o SubSeq(ratings, Len(ratings) - KEEP_EACH_SIDE + 1, Len(ratings))

\* C9: train_spam and train_ham remove no entry and lower no count;
\* train_spam adds to each word's spam count its number of occurrences in
\* the message and leaves the ham counts and ham_total_count alone
\* (train_ham likewise); a message without words changes nothing.
C9_OnlyIncrements ==
  [][ last_op' \in {"train_spam", "train_ham"} =>
        LET ws == load_word_list(msg')
            had(w, f) == IF w \in DOMAIN token_table THEN token_table[w][f] ELSE 0
        IN /\ DOMAIN token_table \subseteq DOMAIN token_table'
           /\ \A w \in DOMAIN token_table :
                /\ token_table'[w].ham >= token_table[w].ham
                /\ token_table'[w].spam >= token_table[w].spam
           /\ (last_op' = "train_spam" /\ ~panicked') =>
                /\ \A w \in DOMAIN token_table' :
                     /\ token_table'[w].spam = had(w, "spam") + Count(w, ws)
                     /\ token_table'[w].ham = had(w, "ham")
                /\ ham_total_count' = ham_total_count
           /\ (last_op' = "train_ham" /\ ~panicked') =>
                /\ \A w \in DOMAIN token_table' :
                     /\ token_table'[w].ham = had(w, "ham") + Count(w, ws)
                     /\ token_table'[w].spam = had(w, "spam")
                /\ spam_total_count' = spam_total_count
           /\ ws = <<>> => classifier' = classifier ]_vars

\* C10: every entry of token_table has ham + spam >= 1; a word of the
\* table never gets the 0.5 fallback, and the mixed-count formula is only
\* evaluated with both counts positive and a non-zero denominator.
C10_NoEmptyEntry ==
  Running =>
    /\ \A w \in DOMAIN token_table : token_table[w].ham + token_table[w].spam >= 1
    /\ Answered =>
         \A i \in DOMAIN load_word_list(msg) :
           LET w == load_word_list(msg)[i] IN
             /\ Branch(w) # "fallback"
             /\ Branch(w) = "mixed" =>
                  /\ token_table[w].ham > 0 /\ token_table[w].spam > 0
                  /\ FAdd(ham_prob(token_table, ham_total_count, w),
                          spam_prob(token_table, spam_total_count, w)) # FZero
====
